---------------------------- MODULE Spec2Model ----------------------------
(***************************************************************************)
(* Inverted index of buscador_utiles.py: text normalisation, index         *)
(* construction (unrestricted and top-N), single-word / OR / AND queries   *)
(* and index statistics.                                                   *)
(*                                                                         *)
(* A text is a sequence of characters, a character a one-character string  *)
(* (the backtick, which the TLA+ lexer cannot hold in a string, is written *)
(* "GRAVE").  A word (token) is a non-empty sequence of characters.  A     *)
(* Python dict is a function whose DOMAIN is its key set; a Python set is  *)
(* a set.                                                                  *)
(***************************************************************************)
EXTENDS Integers, Sequences, FiniteSets, TLC

Range(s) == {s[i] : i \in 1..Len(s)}

(***************************************************************************)
(* Module constants (lines 4 and 7).                                       *)
(***************************************************************************)
STOP_WORDS == {<<"d", "e">>, <<"l", "a">>, <<"q", "u", "e">>, <<"e", "l">>,
    <<"e", "n">>, <<"y">>, <<"a">>, <<"l", "o", "s">>, <<"d", "e", "l">>,
    <<"s", "e">>, <<"l", "a", "s">>, <<"p", "o", "r">>, <<"u", "n">>,
    <<"p", "a", "r", "a">>, <<"c", "o", "n">>, <<"n", "o">>,
    <<"u", "n", "a">>, <<"s", "u">>, <<"a", "l">>, <<"l", "o">>,
    <<"c", "o", "m", "o">>, <<"m", "á", "s">>, <<"p", "e", "r", "o">>,
    <<"s", "u", "s">>, <<"l", "e">>, <<"y", "a">>, <<"o">>}
PUNTUACION == <<"!", "¡", "\"", "#", "$", "%", "&", "'", "(", ")", "*",
    "+", ",", "-", ".", "/", ":", ";", "<", "=", ">", "?", "¿", "@", "[",
    "\\", "]", "^", "_", "GRAVE", "{", "|", "}", "~">>

(***************************************************************************)
(* The part of Python's character tables the model's alphabet needs:       *)
(* str.lower maps each upper-case letter to the lower-case letter at the   *)
(* same position and leaves every other character alone; str.isalpha is    *)
(* true of the letters only (not of digits, punctuation or whitespace);    *)
(* str.split() splits at runs of whitespace.                               *)
(***************************************************************************)
Mayusculas == <<"A", "B", "C", "D", "E", "F", "G", "H", "I", "J", "K", "L",
    "M", "N", "O", "P", "Q", "R", "S", "T", "U", "V", "W", "X", "Y", "Z",
    "Á", "É", "Í", "Ó", "Ú", "Ü", "Ñ">>
Minusculas == <<"a", "b", "c", "d", "e", "f", "g", "h", "i", "j", "k", "l",
    "m", "n", "o", "p", "q", "r", "s", "t", "u", "v", "w", "x", "y", "z",
    "á", "é", "í", "ó", "ú", "ü", "ñ">>

Espacios == {" ", "\t", "\n"}

Letras == Range(Mayusculas) \cup Range(Minusculas)

EnMinuscula ==
    [c \in Range(Mayusculas) |->
        Minusculas[CHOOSE i \in 1..Len(Mayusculas) : Mayusculas[i] = c]]

lower_char(c) == IF c \in DOMAIN EnMinuscula THEN EnMinuscula[c] ELSE c

lower(texto) == [i \in 1..Len(texto) |-> lower_char(texto[i])]

isalpha(p) == Len(p) > 0 /\ \A i \in 1..Len(p) : p[i] \in Letras

\* split(): scan the text, closing the current word at each whitespace
\* character; empty fragments are discarded.
RECURSIVE split_desde(_, _, _, _)
split_desde(texto, i, actual, palabras) ==
    IF i > Len(texto)
    THEN IF actual = <<>> THEN palabras ELSE Append(palabras, actual)
    ELSE IF texto[i] \in Espacios
         THEN split_desde(texto, i + 1, <<>>,
                          IF actual = <<>> THEN palabras
                          ELSE Append(palabras, actual))
         ELSE split_desde(texto, i + 1, Append(actual, texto[i]), palabras)

split(texto) == split_desde(texto, 1, <<>>, <<>>)

\* for i in PUNTUACION: if i in texto: texto = texto.replace(i, " ")
\* The replacements are of distinct characters by a character that is not
\* in PUNTUACION, so the loop amounts to one pass over the text.
Signos == Range(PUNTUACION)

quitar_puntuacion(texto) ==
    [i \in 1..Len(texto) |-> IF texto[i] \in Signos THEN " " ELSE texto[i]]

\* for p in palabras: if p not in STOP_WORDS and p.isalpha(): append
RECURSIVE filtrar(_, _)
filtrar(palabras, filtrado) ==
    IF palabras = <<>> THEN filtrado
    ELSE filtrar(Tail(palabras),
                 IF Head(palabras) \notin STOP_WORDS /\ isalpha(Head(palabras))
                 THEN Append(filtrado, Head(palabras)) ELSE filtrado)

\* Mutant: the alphabetic filter is dropped.
normalizar_texto_sin_isalpha(texto) ==
    LET RECURSIVE f(_, _)
        f(palabras, filtrado) ==
            IF palabras = <<>> THEN filtrado
            ELSE f(Tail(palabras),
                   IF Head(palabras) \notin STOP_WORDS
                   THEN Append(filtrado, Head(palabras)) ELSE filtrado)
    IN f(split(quitar_puntuacion(lower(texto))), <<>>)

\* Mutant: the stop words are not filtered out.
normalizar_texto_con_huecas(texto) ==
    LET RECURSIVE f(_, _)
        f(palabras, filtrado) ==
            IF palabras = <<>> THEN filtrado
            ELSE f(Tail(palabras),
                   IF isalpha(Head(palabras))
                   THEN Append(filtrado, Head(palabras)) ELSE filtrado)
    IN f(split(quitar_puntuacion(lower(texto))), <<>>)

normalizar_texto(texto) ==
    filtrar(split(quitar_puntuacion(lower(texto))), <<>>)

(***************************************************************************)
(* The outcome of a call: the exception it raised ("none" when it          *)
(* returned) and the value it returned.                                    *)
(***************************************************************************)
Devuelve(v) == [raised |-> "none", val |-> v]

Lanza(e) == [raised |-> e, val |-> {}]

DictVacio == [p \in {} |-> {}]

\* if p not in indice: indice[p] = set()
\* indice.get(p, None).add(url)
insertar_url(indice, p, url) ==
    LET con_clave == IF p \notin DOMAIN indice
                     THEN [q \in DOMAIN indice \cup {p} |->
                              IF q = p THEN {} ELSE indice[q]]
                     ELSE indice
    IN  [con_clave EXCEPT ![p] = @ \cup {url}]

RECURSIVE indexar_palabras(_, _, _)
indexar_palabras(palabras, url, indice) ==
    IF palabras = <<>> THEN indice
    ELSE indexar_palabras(Tail(palabras), url,
                          insertar_url(indice, Head(palabras), url))

\* Mutant: the insertion sits in an else branch, so a word that is new to
\* the index only gets its empty posting set.
RECURSIVE indexar_palabras_else(_, _, _)
indexar_palabras_else(palabras, url, indice) ==
    IF palabras = <<>> THEN indice
    ELSE LET p == Head(palabras)
         IN  indexar_palabras_else(Tail(palabras), url,
                 IF p \notin DOMAIN indice
                 THEN [q \in DOMAIN indice \cup {p} |->
                          IF q = p THEN {} ELSE indice[q]]
                 ELSE [indice EXCEPT ![p] = @ \cup {url}])

procesar_url_en_indice_else(url, texto, indice) ==
    indexar_palabras_else(normalizar_texto(texto), url, indice)

\* Mutant: the url's postings of an earlier version are removed first.
procesar_url_en_indice_reemplaza(url, texto, indice) ==
    indexar_palabras(normalizar_texto(texto), url,
                     [q \in DOMAIN indice |-> indice[q] \ {url}])

procesar_url_en_indice(url, texto, indice) ==
    indexar_palabras(normalizar_texto(texto), url, indice)

buscar_palabra_simple(palabra, indice) ==
    LET normalizada == normalizar_texto(palabra)
    IN  IF normalizada = <<>> THEN Lanza("IndexError")
        ELSE IF normalizada[1] \notin DOMAIN indice THEN Devuelve({})
        ELSE Devuelve(indice[normalizada[1]])

\* for p in palabras: res.update(buscar_palabra_simple(p, indice))
RECURSIVE or_bucle(_, _, _)
or_bucle(palabras, res, indice) ==
    IF palabras = <<>> THEN Devuelve(res)
    ELSE LET palabra_actual == buscar_palabra_simple(Head(palabras), indice)
         IN  IF palabra_actual.raised # "none" THEN palabra_actual
             ELSE or_bucle(Tail(palabras), res \cup palabra_actual.val, indice)

\* Mutant: the accumulator is intersected instead of updated.
RECURSIVE or_bucle_interseccion(_, _, _)
or_bucle_interseccion(palabras, res, indice) ==
    IF palabras = <<>> THEN Devuelve(res)
    ELSE LET palabra_actual == buscar_palabra_simple(Head(palabras), indice)
         IN  IF palabra_actual.raised # "none" THEN palabra_actual
             ELSE or_bucle_interseccion(Tail(palabras),
                                        res \cap palabra_actual.val, indice)

buscar_palabras_or_interseccion(frase, indice) ==
    or_bucle_interseccion(normalizar_texto(frase), {}, indice)

buscar_palabras_or(frase, indice) ==
    or_bucle(normalizar_texto(frase), {}, indice)

(***************************************************************************)
(* buscar_palabras_and, with the posting-set accesses instrumented:        *)
(* consultadas is the sequence of words handed to buscar_palabra_simple.   *)
(***************************************************************************)
ResultadoAnd(r, consultadas) ==
    [raised |-> r.raised, val |-> r.val, consultadas |-> consultadas]

\* for p in lista[1:]: ... intersection ... if not resultado: break
RECURSIVE and_bucle(_, _, _, _)
and_bucle(resto, resultado, consultadas, indice) ==
    IF resto = <<>> THEN ResultadoAnd(Devuelve(resultado), consultadas)
    ELSE LET urls_palabra == buscar_palabra_simple(Head(resto), indice)
             vistas == Append(consultadas, Head(resto))
             nuevo == resultado \cap urls_palabra.val
         IN  IF urls_palabra.raised # "none"
             THEN ResultadoAnd(urls_palabra, vistas)
             ELSE IF nuevo = {}
                  THEN ResultadoAnd(Devuelve(nuevo), vistas)
                  ELSE and_bucle(Tail(resto), nuevo, vistas, indice)

\* Mutant: the loop has no break.
RECURSIVE and_bucle_sin_break(_, _, _, _)
and_bucle_sin_break(resto, resultado, consultadas, indice) ==
    IF resto = <<>> THEN ResultadoAnd(Devuelve(resultado), consultadas)
    ELSE LET urls_palabra == buscar_palabra_simple(Head(resto), indice)
             vistas == Append(consultadas, Head(resto))
         IN  IF urls_palabra.raised # "none"
             THEN ResultadoAnd(urls_palabra, vistas)
             ELSE and_bucle_sin_break(Tail(resto),
                                      resultado \cap urls_palabra.val,
                                      vistas, indice)

buscar_palabras_and_sin_break(frase, indice) ==
    LET lista == normalizar_texto(frase)
    IN  IF Len(lista) = 0 THEN ResultadoAnd(Devuelve({}), <<>>)
        ELSE LET primero == buscar_palabra_simple(lista[1], indice)
             IN  IF primero.raised # "none"
                 THEN ResultadoAnd(primero, <<lista[1]>>)
                 ELSE and_bucle_sin_break(Tail(lista), primero.val,
                                          <<lista[1]>>, indice)

buscar_palabras_and(frase, indice) ==
    LET lista == normalizar_texto(frase)
    IN  IF Len(lista) = 0 THEN ResultadoAnd(Devuelve({}), <<>>)
        ELSE LET primero == buscar_palabra_simple(lista[1], indice)
             IN  IF primero.raised # "none"
                 THEN ResultadoAnd(primero, <<lista[1]>>)
                 ELSE and_bucle(Tail(lista), primero.val,
                                <<lista[1]>>, indice)

(***************************************************************************)
(* collections.Counter: a dict in insertion order, that is, the distinct   *)
(* words in order of first appearance (claves) with their counts (cuenta). *)
(* most_common(n) is sorted(items, key=count, reverse=True)[:n] with a     *)
(* stable sort, and the empty list for n <= 0.                             *)
(***************************************************************************)
RECURSIVE Counter(_, _)
Counter(palabras, contador) ==
    IF palabras = <<>> THEN contador
    ELSE LET p == Head(palabras)
         IN  Counter(Tail(palabras),
                 IF p \in Range(contador.claves)
                 THEN [contador EXCEPT !.cuenta[p] = @ + 1]
                 ELSE [claves |-> Append(contador.claves, p),
                       cuenta |-> [q \in DOMAIN contador.cuenta \cup {p} |->
                                      IF q = p THEN 1
                                      ELSE contador.cuenta[q]]])

ContadorVacio == [claves |-> <<>>, cuenta |-> [p \in {} |-> 0]]

\* Stable insertion of clave into a sequence sorted by descending count:
\* after every element whose count is at least its own.
insertar_ordenado(ordenadas, clave, cuenta) ==
    LET menores == {i \in 1..Len(ordenadas) :
                       cuenta[ordenadas[i]] < cuenta[clave]}
        pos == IF menores = {} THEN Len(ordenadas) + 1
               ELSE CHOOSE i \in menores : \A j \in menores : i <= j
    IN  SubSeq(ordenadas, 1, pos - 1) \o <<clave>>
            \o SubSeq(ordenadas, pos, Len(ordenadas))

RECURSIVE ordenar_por_cuenta(_, _, _)
ordenar_por_cuenta(claves, cuenta, ordenadas) ==
    IF claves = <<>> THEN ordenadas
    ELSE ordenar_por_cuenta(Tail(claves), cuenta,
                            insertar_ordenado(ordenadas, Head(claves), cuenta))

primeras(s, n) ==
    IF n <= 0 THEN <<>> ELSE SubSeq(s, 1, IF n < Len(s) THEN n ELSE Len(s))

\* Mutant: the words are taken in order of appearance, not by frequency.
most_common_sin_ordenar(contador, n) == primeras(contador.claves, n)

most_common(contador, n) ==
    primeras(ordenar_por_cuenta(contador.claves, contador.cuenta, <<>>), n)

procesar_url_en_indice_top_n(url, texto, indice, top_n) ==
    LET palabras == normalizar_texto(texto)
        contador == Counter(palabras, ContadorVacio)
        top_palabras == most_common(contador, top_n)
    IN  indexar_palabras(top_palabras, url, indice)

(***************************************************************************)
(* calcula_estadisticas_indice.  The float total_urls / num_palabras is    *)
(* kept as the fraction num/den (den > 0); 0.0 is 0/1.  Two fractions are  *)
(* the same float exactly when they are equal as rationals (IgualFloat).   *)
(***************************************************************************)
IgualFloat(a, b) == a.num * b.den = b.num * a.den

\* for urls in indice.values(): urls_unicas.update(urls)
RECURSIVE unir_valores(_, _, _)
unir_valores(indice, claves, urls_unicas) ==
    IF claves = {} THEN urls_unicas
    ELSE LET p == CHOOSE q \in claves : TRUE
         IN  unir_valores(indice, claves \ {p}, urls_unicas \cup indice[p])

\* sum(len(urls) for urls in indice.values())
RECURSIVE sumar_longitudes(_, _)
sumar_longitudes(indice, claves) ==
    IF claves = {} THEN 0
    ELSE LET p == CHOOSE q \in claves : TRUE
         IN  Cardinality(indice[p]) + sumar_longitudes(indice, claves \ {p})

Estadisticas(num_palabras, num_urls_unicas, total_urls) ==
    [num_palabras |-> num_palabras,
     num_urls_unicas |-> num_urls_unicas,
     promedio |-> IF num_palabras > 0
                  THEN [num |-> total_urls, den |-> num_palabras]
                  ELSE [num |-> 0, den |-> 1]]

\* Mutant: the documents are counted with repetition (sum, not union).
calcula_estadisticas_indice_suma(indice) ==
    Estadisticas(Cardinality(DOMAIN indice),
                 sumar_longitudes(indice, DOMAIN indice),
                 sumar_longitudes(indice, DOMAIN indice))

calcula_estadisticas_indice(indice) ==
    Estadisticas(Cardinality(DOMAIN indice),
                 Cardinality(unir_valores(indice, DOMAIN indice, {})),
                 sumar_longitudes(indice, DOMAIN indice))

(***************************************************************************)
(* Inputs.                                                                 *)
(***************************************************************************)
MaxLen == 4

MaxTopN == 2

URLs == {"url1", "url2"}

\* "el gato come pescado"
TextoGato == <<"e", "l", " ", "g", "a", "t", "o", " ", "c", "o", "m", "e",
    " ", "p", "e", "s", "c", "a", "d", "o">>

\* "el perro come carne"
TextoPerro == <<"e", "l", " ", "p", "e", "r", "r", "o", " ", "c", "o", "m",
    "e", " ", "c", "a", "r", "n", "e">>

\* "El"
TextoHueco == <<"E", "l">>

\* "¡7!"
TextoSignos == <<"¡", "7", "!">>

\* "carne Come, come"
TextoRepetido == <<"c", "a", "r", "n", "e", " ", "C", "o", "m", "e", ",",
    " ", "c", "o", "m", "e">>

\* The empty text, the two documents of the scenario, a stop word, a text of
\* punctuation and digits only, and a text with a repeated word.
Textos == {<<>>, TextoGato, TextoPerro, TextoHueco, TextoSignos,
           TextoRepetido}

TopNs == -1..MaxTopN

\* Every text of at most MaxLen characters over a small alphabet: letters of
\* both cases (with the stop words "a", "la", "al"), a digit, punctuation
\* and whitespace.
Alfabeto == {"a", "l", "A", "L", "7", ",", " "}

TextosCortos == UNION {[1..k -> Alfabeto] : k \in 0..MaxLen}

\* The end-to-end scenario: two documents indexed into an empty index.
Escenario == <<[op |-> "procesar_url_en_indice", url |-> "url1",
                texto |-> TextoGato],
               [op |-> "procesar_url_en_indice", url |-> "url2",
                texto |-> TextoPerro]>>

(***************************************************************************)
(* State.  indice is the caller's index.  last records the last call: its  *)
(* arguments, the index it was handed (pre) and its outcome.  paso is a    *)
(* history variable: the number of steps of Escenario made so far when the *)
(* mutating calls made so far are exactly its first paso steps, and -1     *)
(* once they are not.                                                      *)
(***************************************************************************)
VARIABLES indice, last, paso

vars == <<indice, last, paso>>

SinEstadisticas == Estadisticas(0, 0, 0)

Llamada(op, url, texto, top_n, pre, raised) ==
    [op |-> op, url |-> url, texto |-> texto, top_n |-> top_n, pre |-> pre,
     raised |-> raised, urls |-> {}, palabras |-> <<>>,
     stats |-> SinEstadisticas]

avanzar(p, op, url, texto) ==
    IF /\ p >= 0
       /\ p < Len(Escenario)
       /\ Escenario[p + 1] = [op |-> op, url |-> url, texto |-> texto]
    THEN p + 1
    ELSE -1

Init ==
    /\ indice = DictVacio
    /\ last = Llamada("ninguna", "", <<>>, 0, DictVacio, "none")
    /\ paso = 0

CallNormalizar(texto) ==
    /\ last' = [Llamada("normalizar_texto", "", texto, 0, indice, "none")
                   EXCEPT !.palabras = normalizar_texto(texto)]
    /\ UNCHANGED <<indice, paso>>

CallProcesar(url, texto) ==
    /\ indice' = procesar_url_en_indice(url, texto, indice)
    /\ last' = Llamada("procesar_url_en_indice", url, texto, 0, indice, "none")
    /\ paso' = avanzar(paso, "procesar_url_en_indice", url, texto)

CallProcesarTopN(url, texto, top_n) ==
    /\ indice' = procesar_url_en_indice_top_n(url, texto, indice, top_n)
    /\ last' = Llamada("procesar_url_en_indice_top_n", url, texto, top_n,
                       indice, "none")
    /\ paso' = avanzar(paso, "procesar_url_en_indice_top_n", url, texto)

CallBuscarSimple(palabra) ==
    LET r == buscar_palabra_simple(palabra, indice)
    IN  /\ last' = [Llamada("buscar_palabra_simple", "", palabra, 0, indice,
                            r.raised) EXCEPT !.urls = r.val]
        /\ UNCHANGED <<indice, paso>>

CallBuscarOr(frase) ==
    LET r == buscar_palabras_or(frase, indice)
    IN  /\ last' = [Llamada("buscar_palabras_or", "", frase, 0, indice,
                            r.raised) EXCEPT !.urls = r.val]
        /\ UNCHANGED <<indice, paso>>

CallBuscarAnd(frase) ==
    LET r == buscar_palabras_and(frase, indice)
    IN  /\ last' = [Llamada("buscar_palabras_and", "", frase, 0, indice,
                            r.raised)
                       EXCEPT !.urls = r.val, !.palabras = r.consultadas]
        /\ UNCHANGED <<indice, paso>>

CallEstadisticas ==
    /\ last' = [Llamada("calcula_estadisticas_indice", "", <<>>, 0, indice,
                        "none")
                   EXCEPT !.stats = calcula_estadisticas_indice(indice)]
    /\ UNCHANGED <<indice, paso>>

Next ==
    \/ \E texto \in Textos : CallNormalizar(texto)
    \/ \E url \in URLs, texto \in Textos : CallProcesar(url, texto)
    \/ \E url \in URLs, texto \in Textos, top_n \in TopNs :
           CallProcesarTopN(url, texto, top_n)
    \/ \E palabra \in Textos : CallBuscarSimple(palabra)
    \/ \E frase \in Textos : CallBuscarOr(frase)
    \/ \E frase \in Textos : CallBuscarAnd(frase)
    \/ CallEstadisticas

Spec == Init /\ [][Next]_vars

\* normalizar_texto alone: the text is drawn from every short text, and the
\* one step applies the function to it.
InitNorm ==
    /\ indice = DictVacio
    /\ paso = 0
    /\ \E texto \in TextosCortos :
           last = Llamada("entrada", "", texto, 0, DictVacio, "none")

NextNorm == last.op = "entrada" /\ CallNormalizar(last.texto)

SpecNorm == InitNorm /\ [][NextNorm]_vars

(***************************************************************************)
(* Properties.                                                             *)
(***************************************************************************)
Palabras == normalizar_texto(last.texto)

Postings(ind, p) == IF p \in DOMAIN ind THEN ind[p] ELSE {}

\* The running intersection of the posting sets of the first k words.
Acumulado(ind, palabras, k) ==
    {u \in URLs : \A i \in 1..k : u \in Postings(ind, palabras[i])}

Maximo(a, b) == IF a >= b THEN a ELSE b

Minimo(a, b) == IF a <= b THEN a ELSE b

\* C1: buscar_palabra_simple on a word whose normalisation has no tokens
\* returns the empty set and raises nothing.
C1_SinTokensDevuelveVacio ==
    (last.op = "buscar_palabra_simple" /\ Palabras = <<>>)
        => (last.raised = "none" /\ last.urls = {})

\* C2 (as stated): after the two documents of the scenario are indexed into
\* an empty index, the statistics are (4, 2, 0.5).
C2_EscenarioCuatroTerminos ==
    (last.op = "calcula_estadisticas_indice" /\ paso = Len(Escenario))
        => /\ last.stats.num_palabras = 4
           /\ last.stats.num_urls_unicas = 2
           /\ IgualFloat(last.stats.promedio, [num |-> 1, den |-> 2])

\* C2 (amended): after the two documents of the scenario are indexed into
\* an empty index, the statistics are (5, 2, 6/5 = 1.2).
C2_EscenarioCincoTerminos ==
    (last.op = "calcula_estadisticas_indice" /\ paso = Len(Escenario))
        => /\ last.stats.num_palabras = 5
           /\ last.stats.num_urls_unicas = 2
           /\ IgualFloat(last.stats.promedio, [num |-> 6, den |-> 5])

C2_EscenarioMedido ==
    last.op = "calcula_estadisticas_indice" /\ paso = Len(Escenario)

\* C3 (as stated): once the running intersection of buscar_palabras_and,
\* which starts as the posting set of the first word, is empty, no later
\* word is looked up, and the empty set is returned.
C3_CortaEnCuantoVacio ==
    last.op = "buscar_palabras_and"
        => \A k \in 1..Len(Palabras) :
               Acumulado(last.pre, Palabras, k) = {}
                   => Len(last.palabras) <= k /\ last.urls = {}

\* C3 (amended): the running intersection is tested only after each
\* intersection step.  The words looked up are a prefix of the phrase's
\* words; once the running intersection is empty after the second or a
\* later word, no later word is looked up; when the first word's posting set
\* is already empty the second word (if any) is still looked up and none
\* after it; in both cases the empty set is returned.
C3_CortaTrasIntersecar ==
    last.op = "buscar_palabras_and"
        => /\ Len(last.palabras) <= Len(Palabras)
           /\ last.palabras = SubSeq(Palabras, 1, Len(last.palabras))
           /\ \A k \in 1..Len(Palabras) :
                  Acumulado(last.pre, Palabras, k) = {}
                      => /\ Len(last.palabras) <= Maximo(k, 2)
                         /\ last.urls = {}
           /\ (Len(Palabras) >= 2 /\ Acumulado(last.pre, Palabras, 1) = {})
                  => Len(last.palabras) = 2

C3_CortoEnLaSegunda ==
    /\ last.op = "buscar_palabras_and"
    /\ Len(Palabras) >= 3
    /\ Acumulado(last.pre, Palabras, 1) # {}
    /\ Len(last.palabras) = 2
    /\ last.urls = {}

\* C4: after procesar_url_en_indice(url, texto, indice), url is in the
\* posting set of every word of normalizar_texto(texto).
C4_UrlEnCadaPalabra ==
    last.op = "procesar_url_en_indice"
        => \A i \in 1..Len(Palabras) :
               Palabras[i] \in DOMAIN indice /\ last.url \in indice[Palabras[i]]

C4_IndexadoSobreIndiceNoVacio ==
    /\ last.op = "procesar_url_en_indice"
    /\ Len(Palabras) >= 3
    /\ last.pre # DictVacio
    /\ \E i \in 1..Len(Palabras) : Palabras[i] \notin DOMAIN last.pre

\* C5: procesar_url_en_indice_top_n inserts url into the posting sets of
\* exactly the first min(max(top_n, 0), d) of the d distinct words of the
\* text, ordered by descending frequency and then by first appearance; no
\* other posting set changes and no other key is created.
C5_SoloLasMasFrecuentes ==
    last.op = "procesar_url_en_indice_top_n"
        => LET P == Palabras
               distintas == Range(P)
               veces == [p \in distintas |->
                            Cardinality({i \in 1..Len(P) : P[i] = p})]
               primera == [p \in distintas |->
                              CHOOSE i \in 1..Len(P) :
                                  P[i] = p /\ \A j \in 1..(i - 1) : P[j] # p]
               antes(p, q) == \/ veces[p] > veces[q]
                              \/ veces[p] = veces[q] /\ primera[p] < primera[q]
               k == Minimo(Maximo(last.top_n, 0), Cardinality(distintas))
               elegidas == {p \in distintas :
                               Cardinality({q \in distintas : antes(q, p)}) < k}
           IN  /\ Cardinality(elegidas) = k
               /\ DOMAIN indice = DOMAIN last.pre \cup elegidas
               /\ \A p \in DOMAIN indice :
                      indice[p] = Postings(last.pre, p)
                                     \cup (IF p \in elegidas THEN {last.url} ELSE {})

C5_GanaLaMasFrecuente ==
    /\ last.op = "procesar_url_en_indice_top_n"
    /\ last.top_n = 1
    /\ Cardinality(Range(Palabras)) >= 2
    /\ Palabras[1] \notin DOMAIN indice
    /\ \E p \in DOMAIN indice : p \notin DOMAIN last.pre

\* C6: for every phrase and index, the result of buscar_palabras_and is a
\* subset of the result of buscar_palabras_or.
C6_AndDentroDeOr ==
    /\ last.op = "buscar_palabras_and"
           => /\ last.raised = "none"
              /\ buscar_palabras_or(last.texto, last.pre).raised = "none"
              /\ last.urls \subseteq buscar_palabras_or(last.texto, last.pre).val
    /\ last.op = "buscar_palabras_or"
           => /\ last.raised = "none"
              /\ buscar_palabras_and(last.texto, last.pre).raised = "none"
              /\ buscar_palabras_and(last.texto, last.pre).val \subseteq last.urls

C6_AndEstrictamenteMenor ==
    /\ last.op = "buscar_palabras_and"
    /\ last.urls # {}
    /\ last.urls # buscar_palabras_or(last.texto, last.pre).val

\* C7: calling procesar_url_en_indice a second time with the same url and
\* text leaves the index (keys and posting sets) as the first call left it.
C7_Idempotente ==
    last.op = "procesar_url_en_indice"
        => procesar_url_en_indice(last.url, last.texto, indice) = indice

C7_PrimeraLlamadaCambia ==
    /\ last.op = "procesar_url_en_indice"
    /\ Len(Palabras) >= 1
    /\ indice # last.pre

\* C8: calcula_estadisticas_indice returns the number of keys, the size of
\* the union of the posting sets, and (sum of posting-set sizes) / number of
\* keys; for the empty index it returns (0, 0, 0.0) and raises nothing.
C8_Estadisticas ==
    last.op = "calcula_estadisticas_indice"
        => LET claves == DOMAIN last.pre
               pares == {par \in claves \X URLs : par[2] \in last.pre[par[1]]}
               docs == {u \in URLs : \E p \in claves : u \in last.pre[p]}
           IN  /\ last.raised = "none"
               /\ last.stats.num_palabras = Cardinality(claves)
               /\ last.stats.num_urls_unicas = Cardinality(docs)
               /\ last.stats.promedio.den > 0
               /\ IF claves = {}
                  THEN last.stats.promedio.num = 0
                  ELSE last.stats.promedio.num * Cardinality(claves)
                           = Cardinality(pares) * last.stats.promedio.den

C8_UrlEnVariasPalabras ==
    /\ last.op = "calcula_estadisticas_indice"
    /\ last.stats.num_urls_unicas = 2
    /\ last.stats.promedio.num > last.stats.num_urls_unicas
    /\ last.stats.promedio.num > last.stats.promedio.den

\* C9: every element of normalizar_texto(T) is a non-empty word of
\* lower-case letters only (so: no punctuation) that is not a stop word; the
\* elements are, in the order of the text and with duplicates kept, the
\* lower-cased maximal runs of non-separator characters that pass the
\* filter; a text with no such run gives the empty sequence.
C9_Normalizado ==
    last.op = "normalizar_texto"
        => LET T == last.texto
               R == last.palabras
               n == Len(T)
               sep(i) == T[i] \in Espacios \/ T[i] \in Range(PUNTUACION)
               tramos == {t \in (1..n) \X (1..n) :
                             /\ t[1] <= t[2]
                             /\ \A i \in t[1]..t[2] : ~sep(i)
                             /\ t[1] = 1 \/ sep(t[1] - 1)
                             /\ t[2] = n \/ sep(t[2] + 1)}
               palabra(t) == lower(SubSeq(T, t[1], t[2]))
               pasan == {t \in tramos :
                            /\ palabra(t) \notin STOP_WORDS
                            /\ \A i \in 1..Len(palabra(t)) :
                                   palabra(t)[i] \in Range(Minusculas)}
           IN  /\ \A i \in 1..Len(R) :
                      /\ Len(R[i]) > 0
                      /\ R[i] \notin STOP_WORDS
                      /\ \A j \in 1..Len(R[i]) :
                             /\ R[i][j] \in Range(Minusculas)
                             /\ R[i][j] \notin Range(PUNTUACION)
               /\ Len(R) = Cardinality(pasan)
               /\ \A t \in pasan :
                      R[1 + Cardinality({s \in pasan : s[1] < t[1]})] = palabra(t)
               /\ pasan = {} => R = <<>>

C9_DuplicadosTrasLimpiar ==
    /\ last.op = "normalizar_texto"
    /\ Len(last.palabras) = 2
    /\ last.palabras[1] = last.palabras[2]
    /\ \E i \in 1..Len(last.texto) : last.texto[i] \in Range(Mayusculas)
    /\ \E i \in 1..Len(last.texto) : last.texto[i] \in Range(PUNTUACION)

\* C10: postings are never removed.  Every (word, url) pair of the index is
\* still in it after any call, and the calls that only read (normalise,
\* look up, OR, AND, statistics) leave the index as it was.
C10_NuncaSeQuitan ==
    [][/\ \A p \in DOMAIN indice :
              p \in DOMAIN indice' /\ indice[p] \subseteq indice'[p]
       /\ last'.op \notin {"procesar_url_en_indice",
                           "procesar_url_en_indice_top_n"}
              => indice' = indice]_vars

C10_QuedaLoAntiguo ==
    /\ last.op = "procesar_url_en_indice"
    /\ \E p \in DOMAIN last.pre :
           /\ last.url \in last.pre[p]
           /\ p \notin Range(Palabras)
           /\ last.url \in indice[p]

=============================================================================
